---------------------------- MODULE Spec2Model ----------------------------
(***************************************************************************)
(* Model of scripts/load_content.py: the concurrent metadata-extraction    *)
(* and batched-ingestion pipeline.                                         *)
(*                                                                         *)
(* One coordinator (main) consumes the results of a multiprocessing pool   *)
(* (imap_unordered over the backlog), accumulates truthy documents into    *)
(* results_batch, and writes the batch to the store with insert_many when  *)
(* it reaches BATCH_SIZE, plus once more after the result stream ended.    *)
(*                                                                         *)
(* Environment assumptions of the model:                                   *)
(*  - a file either can be stat'ed for the whole run or for none of it     *)
(*    (field exists): a file deleted between enumeration and processing;   *)
(*  - prints to stderr succeed; a print to stdout either succeeds or finds *)
(*    the pipe closed, and once closed every later print to stdout raises  *)
(*    BrokenPipeError;                                                     *)
(*  - db.content.delete_many and count_documents return; insert_many       *)
(*    either inserts the whole batch or raises and inserts nothing;        *)
(*  - time.time() differences around insert_many are positive (no          *)
(*    ZeroDivisionError at the batch_rate computation);                    *)
(*  - a worker returning a result takes the next task in the same step     *)
(*    (the worker loop of multiprocessing.Pool: put the result, get the    *)
(*    next task).                                                          *)
(*  - a probe that hangs (subprocess.run without timeout) hangs forever;   *)
(*  - a signal is taken between two steps of the coordinator: at the       *)
(*    blocking receive, before the threshold insert (batch full) or        *)
(*    before the final insert, never inside an insert_many call;           *)
(*  - an uncaught KeyboardInterrupt cannot occur: SIGINT is handled by     *)
(*    signal_handler, so main's `except KeyboardInterrupt` is not modelled.*)
(* Bounds: trees of up to MaxShort files of every kind run on 2 workers in *)
(* every arrival order; long trees (one or two insert thresholds) run on 1 *)
(* worker; one tree of PoolFiles files runs on a machine of BigCpu cores;  *)
(* trees of up to MaxShort + 1 files with a hanging probe run on 1 and on  *)
(* 2 workers.                                                              *)
(* Durations, timings and throughput figures are computed for printing     *)
(* only and are not part of the state.                                     *)
(***************************************************************************)
EXTENDS Integers, Sequences, FiniteSets

\* ------------------------------------------------------------ constants
\* BATCH_SIZE = 20
BATCH_SIZE == 20
\* min(mp.cpu_count(), 8)
MAX_WORKERS == 8

\* --------------------------------------------------------------- bounds
\* Short directory trees hold every mix of file kinds up to this length.
MaxShort == 2
\* Long (uniform) trees hold BATCH_SIZE-1 .. BATCH_SIZE+LongExtra files, and
\* 2*BATCH_SIZE+LongExtra files.
LongExtra == 1
\* The tree of the many-cores scenario.
PoolFiles == 9
\* mp.cpu_count() of the many-cores scenario.
BigCpu == 32
\* At most this many results complete before an earlier-dispatched task
\* that returns does.
MaxOvertakes == 1
\* At most this many results wait unconsumed in the pool's result queue.
MaxQueue == 2

Min(a, b) == IF a <= b THEN a ELSE b

Range(s) == {s[i] : i \in 1..Len(s)}

\* ------------------------------------------------------------ the files
Absent == "absent"

\* A file of the directory tree: what the probes of process_file will find.
\*   hidden   the filename begins with '.'
\*   ctype    mimetypes.guess_type: "none" when it returns None
\*   exists   os.stat / os.path.getsize succeed
\*   crash    an exception escapes to process_file's outer handler
\*   mdls_ok, xattr_ok, media_ok   the external probe returns code 0
\*   hangs    an external probe (subprocess.run, no timeout) never returns
File(h, c, e, cr, m, x, md) ==
    [hidden |-> h, ctype |-> c, exists |-> e, crash |-> cr,
     mdls_ok |-> m, xattr_ok |-> x, media_ok |-> md, hangs |-> FALSE]

HiddenFile   == File(TRUE,  "image", TRUE,  FALSE, TRUE,  TRUE,  TRUE)
UnknownFile  == File(FALSE, "none",  TRUE,  FALSE, TRUE,  TRUE,  TRUE)
GoodImage    == File(FALSE, "image", TRUE,  FALSE, TRUE,  TRUE,  TRUE)
GoodVideo    == File(FALSE, "video", TRUE,  FALSE, TRUE,  TRUE,  TRUE)
BareImage    == File(FALSE, "image", TRUE,  FALSE, FALSE, FALSE, FALSE)
BareOther    == File(FALSE, "other", TRUE,  FALSE, FALSE, FALSE, FALSE)
NoMediaVideo == File(FALSE, "video", TRUE,  FALSE, TRUE,  TRUE,  FALSE)
GoneImage    == File(FALSE, "image", FALSE, FALSE, FALSE, FALSE, FALSE)
GoneOther    == File(FALSE, "other", FALSE, FALSE, FALSE, FALSE, FALSE)
CrashOther   == File(FALSE, "other", TRUE,  TRUE,  FALSE, FALSE, FALSE)

\* A video on which ffprobe blocks forever.
HangVideo == [GoodVideo EXCEPT !.hangs = TRUE]

FileKinds == {HiddenFile, UnknownFile, GoodImage, GoodVideo, BareImage,
              BareOther, NoMediaVideo, GoneImage, GoneOther, CrashOther}

LongKinds == {GoodImage, BareOther}

Uniform(k, n) == [i \in 1..n |-> k]

ShortTrees == UNION {[1..n -> FileKinds] : n \in 0..MaxShort}

LongLens == ((BATCH_SIZE - 1)..(BATCH_SIZE + LongExtra))
              \cup {2 * BATCH_SIZE + LongExtra}

\* A long tree: files of one kind, or good images behind a file whose
\* extraction fails and a file of unknown type.
LongTrees ==
    {Uniform(k, n) : k \in LongKinds, n \in LongLens}
    \cup {<<CrashOther, UnknownFile>> \o Uniform(GoodImage, n) : n \in LongLens}

HangKinds == {HangVideo, GoodImage, CrashOther}

\* A tree with a hanging probe: up to MaxShort + 1 files, one or more of
\* them a video on which the probe blocks.
HangTrees ==
    {t \in UNION {[1..n -> HangKinds] : n \in 1..(MaxShort + 1)} :
        \E i \in 1..Len(t) : t[i] = HangVideo}

\* The runs explored: the command line, the machine and the directory tree.
Scenarios ==
    {[tree |-> t, cpu |-> 2, truncate |-> tr, root_ok |-> TRUE] :
        t \in ShortTrees, tr \in BOOLEAN}
    \cup {[tree |-> <<>>, cpu |-> 1, truncate |-> tr, root_ok |-> FALSE] :
        tr \in BOOLEAN}
    \cup {[tree |-> Uniform(GoodImage, PoolFiles), cpu |-> BigCpu,
           truncate |-> FALSE, root_ok |-> TRUE]}
    \cup {[tree |-> t, cpu |-> 1, truncate |-> tr, root_ok |-> TRUE] :
        t \in LongTrees, tr \in BOOLEAN}
    \cup {[tree |-> t, cpu |-> c, truncate |-> FALSE, root_ok |-> TRUE] :
        t \in HangTrees, c \in 1..2}

VARIABLES
    tree,            \* the files under root_directory, by path index
    root_is_dir,     \* os.path.isdir(root_dir)
    truncate,        \* args.truncate
    cpu_count,       \* mp.cpu_count()
    pc,              \* the coordinator's position (the lifecycle state)
    exit_status,     \* the process exit status, -1 while running
    stdout_ok,       \* no print to stdout has found the pipe closed
    store,           \* db.content: the documents, in insertion order
    all_files,       \* the backlog: path indices
    worker_count,    \* the pool's size
    next_task,       \* position in all_files of the next task to hand out
    inflight,        \* positions in all_files being extracted by workers
    outqueue,        \* results completed and not yet received
    overtakes,       \* out-of-order completions so far (bounded)
    processed_count,
    success_count,
    error_count,
    results_batch,
    writes,          \* history: every insert_many call of the run
    appended,        \* history: results appended to results_batch
    consumed,        \* history: tasks whose result was received, in order
    at_signal,       \* history: the batch and the writes when a signal hit
    fault            \* history: "none", "signal" or "stream"

vars == <<tree, root_is_dir, truncate, cpu_count, pc, exit_status, stdout_ok,
          store, all_files, worker_count, next_task, inflight, outqueue,
          overtakes, processed_count, success_count, error_count,
          results_batch, writes, appended, consumed, at_signal, fault>>

\* ------------------------------------------------------- the extractor
\* The document of a file nothing was extracted from ({} or None).
NoDoc ==
    [src |-> 0, file_path |-> 0, content_type |-> Absent,
     base_attributes |-> Absent, mdls |-> Absent, xattr |-> Absent,
     video_metadata |-> Absent, image_metadata |-> Absent]

\* A document the collection held before the run.
OldDoc ==
    [src |-> 0, file_path |-> 0, content_type |-> "image",
     base_attributes |-> "data", mdls |-> "data", xattr |-> "data",
     video_metadata |-> Absent, image_metadata |-> "data"]

\* os.stat in get_base_attributes, and os.path.getsize: raise iff the file
\* cannot be stat'ed.
get_base_attributes_ok(f) == f.exists

get_mdls_attributes(f) == IF f.mdls_ok THEN "data" ELSE "empty"

get_xattr_attributes(f) == IF f.xattr_ok THEN "data" ELSE "empty"

\* Mutant: a failed probe leaves the field out.
get_video_metadata_omitted(f) == IF f.media_ok THEN "data" ELSE Absent

get_video_metadata(f) == IF f.media_ok THEN "data" ELSE "empty"

get_image_metadata(f) == IF f.media_ok THEN "data" ELSE "empty"

\* process_file(file_path): some = FALSE is the None result; src records
\* the work item the document was built from.
process_file(p) ==
    LET f == tree[p]
        base == get_base_attributes_ok(f)
    IN  IF f.hidden \/ f.ctype = "none" \/ f.crash
        THEN [some |-> FALSE, doc |-> NoDoc]
        ELSE [some |-> TRUE,
              doc |->
                [src |-> p,
                 file_path |-> IF base THEN p ELSE 0,
                 content_type |-> IF base THEN f.ctype ELSE Absent,
                 base_attributes |-> IF base THEN "data" ELSE Absent,
                 mdls |-> IF base THEN get_mdls_attributes(f) ELSE Absent,
                 xattr |-> IF base THEN get_xattr_attributes(f) ELSE Absent,
                 video_metadata |->
                    IF f.ctype = "video" THEN get_video_metadata(f) ELSE Absent,
                 image_metadata |->
                    IF f.ctype = "image" THEN get_image_metadata(f) ELSE Absent]]

\* A dict is truthy iff it has a key.
DocNonEmpty(d) ==
    \/ d.base_attributes # Absent
    \/ d.video_metadata # Absent
    \/ d.image_metadata # Absent

\* `if result:`
Truthy(r) == r.some /\ DocNonEmpty(r.doc)

\* ------------------------------------------------------ the coordinator
\* Mutant: the walk keeps every name.
GatherKeeps_all(f) == TRUE

\* gather_files keeps the names that do not start with '.'
GatherKeeps(f) == ~f.hidden

RECURSIVE gather_from(_, _)
gather_from(t, i) ==
    IF i > Len(t) THEN <<>>
    ELSE (IF GatherKeeps(t[i]) THEN <<i>> ELSE <<>>) \o gather_from(t, i + 1)

gather_files(t) == gather_from(t, 1)

\* Mutant: one worker per core, without the cap.
WorkerCount_uncapped(cpu) == cpu

WorkerCount(cpu) == Min(cpu, MAX_WORKERS)

\* Mutant: the batch is flushed one document late.
FlushDue_strict(batch) == Len(batch) > BATCH_SIZE

\* `if len(results_batch) >= BATCH_SIZE:`
FlushDue(batch) == Len(batch) >= BATCH_SIZE

\* os.path.getsize(all_files[processed_count-1]) of the progress line
PositionSizeOk(n) == get_base_attributes_ok(tree[all_files[n]])

\* sum(os.path.getsize(doc['file_path']) for doc in results_batch)
BatchSizeOk(batch) ==
    \A i \in 1..Len(batch) :
        /\ batch[i].file_path # 0
        /\ get_base_attributes_ok(tree[batch[i].file_path])

\* A print to stdout: the pipe state it leaves (TRUE: the print succeeded).
PrintOutcomes(ok) == IF ok THEN {TRUE, FALSE} ELSE {FALSE}

\* The status the process ends with: the interpreter's final flush of a
\* stdout holding unwritten data fails and turns any status into 120.
ProcessExit(code, out_ok) == IF out_ok THEN code ELSE 120

\* sys.exit(0) of signal_handler
SignalExitCode == 0

\* Mutant: the signal only ends the result loop, and the final insert runs.
SignalTarget_drain == "Draining"

\* Where a signal leaves the coordinator: SystemExit is caught by no handler
\* of main, so nothing after the pool block runs.
SignalTarget == "Interrupted"

Terminal == {"Completed", "Interrupted", "FatalError", "InvalidRoot"}

PoolAlive == pc \in {"Processing", "Flushing"}

Init ==
    /\ \E s \in Scenarios :
        /\ tree = s.tree
        /\ root_is_dir = s.root_ok
        /\ truncate = s.truncate
        /\ cpu_count = s.cpu
    /\ pc = "Start"
    /\ exit_status = -1
    /\ stdout_ok = TRUE
    /\ store = <<OldDoc>>
    /\ all_files = <<>>
    /\ worker_count = 0
    /\ next_task = 1
    /\ inflight = {}
    /\ outqueue = <<>>
    /\ overtakes = 0
    /\ processed_count = 0
    /\ success_count = 0
    /\ error_count = 0
    /\ results_batch = <<>>
    /\ writes = <<>>
    /\ appended = 0
    /\ consumed = <<>>
    /\ at_signal = [hit |-> FALSE, pc |-> "Start", batch |-> <<>>,
                    nwrites |-> 0]
    /\ fault = "none"


\* ------------------------------------------------------------- actions
\* Mutant: the root directory is not checked.
CheckRoot_unchecked ==
    /\ pc = "Start"
    /\ pc' = "Setup"
    /\ UNCHANGED <<tree, root_is_dir, truncate, cpu_count, exit_status,
                   stdout_ok, store, all_files, worker_count, next_task,
                   inflight, outqueue, overtakes, processed_count,
                   success_count, error_count, results_batch, writes,
                   appended, consumed, at_signal, fault>>

\* main: `if not os.path.isdir(root_dir): ... sys.exit(1)`
CheckRoot ==
    /\ pc = "Start"
    /\ IF root_is_dir
       THEN /\ pc' = "Setup"
            /\ UNCHANGED exit_status
       ELSE /\ pc' = "InvalidRoot"
            /\ exit_status' = ProcessExit(1, stdout_ok)
    /\ UNCHANGED <<tree, root_is_dir, truncate, cpu_count, stdout_ok, store,
                   all_files, worker_count, next_task, inflight, outqueue,
                   overtakes, processed_count, success_count, error_count,
                   results_batch, writes, appended, consumed, at_signal, fault>>

\* Mutant: the collection is cleared whether or not --truncate is given.
Setup_clears ==
    /\ pc = "Setup"
    /\ pc' = "Enumerating"
    /\ store' = <<>>
    /\ UNCHANGED <<tree, root_is_dir, truncate, cpu_count, exit_status,
                   stdout_ok, all_files, worker_count, next_task, inflight,
                   outqueue, overtakes, processed_count, success_count,
                   error_count, results_batch, writes, appended, consumed,
                   at_signal, fault>>

\* main: MongoDB setup and `if args.truncate: db.content.delete_many({})`
Setup ==
    /\ pc = "Setup"
    /\ pc' = "Enumerating"
    /\ store' = IF truncate THEN <<>> ELSE store
    /\ UNCHANGED <<tree, root_is_dir, truncate, cpu_count, exit_status,
                   stdout_ok, all_files, worker_count, next_task, inflight,
                   outqueue, overtakes, processed_count, success_count,
                   error_count, results_batch, writes, appended, consumed,
                   at_signal, fault>>

\* main: all_files = gather_files(root_dir). gather_files prints to stdout;
\* a BrokenPipeError there is caught by nothing and ends the process.
GatherFiles ==
    /\ pc = "Enumerating"
    /\ \E out \in PrintOutcomes(stdout_ok) :
        /\ stdout_ok' = out
        /\ IF out
           THEN /\ all_files' = gather_files(tree)
                /\ pc' = "Starting"
                /\ UNCHANGED exit_status
           ELSE /\ pc' = "FatalError"
                /\ exit_status' = ProcessExit(1, out)
                /\ UNCHANGED all_files
    /\ UNCHANGED <<tree, root_is_dir, truncate, cpu_count, store,
                   worker_count, next_task, inflight, outqueue, overtakes,
                   processed_count, success_count, error_count, results_batch,
                   writes, appended, consumed, at_signal, fault>>

\* Mutant: the last task handed out at the start is left at the head of
\* the task queue and handed out again.
StartPool_overlap ==
    /\ pc = "Starting"
    /\ pc' = "Processing"
    /\ worker_count' = WorkerCount(cpu_count)
    /\ LET first == Min(worker_count', Len(all_files))
       IN  /\ inflight' = 1..first
           /\ next_task' = IF first > 0 THEN first ELSE 1
    /\ UNCHANGED <<tree, root_is_dir, truncate, cpu_count, exit_status,
                   stdout_ok, store, all_files, outqueue, overtakes,
                   processed_count, success_count, error_count, results_batch,
                   writes, appended, consumed, at_signal, fault>>

\* main: worker_count = min(mp.cpu_count(), 8); mp.Pool(worker_count);
\* pool.imap_unordered(process_func, all_files): the tasks are queued in
\* backlog order and each idle worker takes the next one.
StartPool ==
    /\ pc = "Starting"
    /\ pc' = "Processing"
    /\ worker_count' = WorkerCount(cpu_count)
    /\ LET first == Min(worker_count', Len(all_files))
       IN  /\ inflight' = 1..first
           /\ next_task' = first + 1
    /\ UNCHANGED <<tree, root_is_dir, truncate, cpu_count, exit_status,
                   stdout_ok, store, all_files, outqueue, overtakes,
                   processed_count, success_count, error_count, results_batch,
                   writes, appended, consumed, at_signal, fault>>

Oldest(S) == CHOOSE k \in S : \A j \in S : k <= j

\* The task of position k is blocked in a probe that never returns.
Hung(k) == tree[all_files[k]].hangs

\* The in-flight tasks whose process_file call returns.
Returning == {j \in inflight : ~Hung(j)}

\* Mutant: results are handed to the coordinator in submission order
\* (pool.imap): a result waits for every task submitted before it.
WorkerReturn_ordered(k) ==
    /\ PoolAlive
    /\ k \in Returning
    /\ k = Oldest(inflight)
    /\ Len(outqueue) < MaxQueue
    /\ outqueue' = Append(outqueue,
                          [task |-> k, result |-> process_file(all_files[k])])
    /\ IF next_task <= Len(all_files)
       THEN /\ inflight' = (inflight \ {k}) \cup {next_task}
            /\ next_task' = next_task + 1
       ELSE /\ inflight' = inflight \ {k}
            /\ UNCHANGED next_task
    /\ UNCHANGED <<tree, root_is_dir, truncate, cpu_count, pc, exit_status,
                   stdout_ok, store, all_files, worker_count, overtakes,
                   processed_count, success_count, error_count, results_batch,
                   writes, appended, consumed, at_signal, fault>>

\* Mutant: the worker itself inserts its document into the collection.
WorkerReturn_stores(k) ==
    /\ PoolAlive
    /\ k \in Returning
    /\ Len(outqueue) < MaxQueue
    /\ IF k = Oldest(Returning)
       THEN UNCHANGED overtakes
       ELSE /\ overtakes < MaxOvertakes
            /\ overtakes' = overtakes + 1
    /\ outqueue' = Append(outqueue,
                          [task |-> k, result |-> process_file(all_files[k])])
    /\ IF next_task <= Len(all_files)
       THEN /\ inflight' = (inflight \ {k}) \cup {next_task}
            /\ next_task' = next_task + 1
       ELSE /\ inflight' = inflight \ {k}
            /\ UNCHANGED next_task
    /\ store' = Append(store, process_file(all_files[k]).doc)
    /\ UNCHANGED <<tree, root_is_dir, truncate, cpu_count, pc, exit_status,
                   stdout_ok, all_files, worker_count,
                   processed_count, success_count, error_count, results_batch,
                   writes, appended, consumed, at_signal, fault>>

\* A worker: process_file returns, the result is queued for the coordinator
\* and the worker takes the next task of the backlog, if any.
WorkerReturn(k) ==
    /\ PoolAlive
    /\ k \in Returning
    /\ Len(outqueue) < MaxQueue
    /\ IF k = Oldest(Returning)
       THEN UNCHANGED overtakes
       ELSE /\ overtakes < MaxOvertakes
            /\ overtakes' = overtakes + 1
    /\ outqueue' = Append(outqueue,
                          [task |-> k, result |-> process_file(all_files[k])])
    /\ IF next_task <= Len(all_files)
       THEN /\ inflight' = (inflight \ {k}) \cup {next_task}
            /\ next_task' = next_task + 1
       ELSE /\ inflight' = inflight \ {k}
            /\ UNCHANGED next_task
    /\ UNCHANGED <<tree, root_is_dir, truncate, cpu_count, pc, exit_status,
                   stdout_ok, store, all_files, worker_count,
                   processed_count, success_count, error_count, results_batch,
                   writes, appended, consumed, at_signal, fault>>

\* main: one iteration of `for result, duration, timings in
\* pool.imap_unordered(...)`, up to the batch insert.
Consume ==
    /\ pc = "Processing"
    /\ outqueue # <<>>
    /\ LET r == Head(outqueue).result
           n == processed_count + 1
       IN  /\ processed_count' = n
           /\ outqueue' = Tail(outqueue)
           /\ consumed' = Append(consumed, Head(outqueue).task)
           /\ \/ \* os.path.getsize raises: `except Exception`
                 /\ ~PositionSizeOk(n)
                 /\ error_count' = error_count + 1
                 /\ UNCHANGED <<stdout_ok, success_count, results_batch,
                                appended, pc>>
              \/ \* the progress line finds stdout closed:
                 \* `except BrokenPipeError`
                 /\ PositionSizeOk(n)
                 /\ stdout_ok' = FALSE
                 /\ UNCHANGED <<error_count, success_count, results_batch,
                                appended, pc>>
              \/ \* the progress line is printed
                 /\ PositionSizeOk(n)
                 /\ stdout_ok
                 /\ UNCHANGED stdout_ok
                 /\ IF Truthy(r)
                    THEN /\ results_batch' = Append(results_batch, r.doc)
                         /\ success_count' = success_count + 1
                         /\ appended' = appended + 1
                         /\ pc' = IF FlushDue(results_batch')
                                  THEN "Flushing" ELSE "Processing"
                         /\ UNCHANGED error_count
                    ELSE /\ error_count' = error_count + 1
                         /\ UNCHANGED <<success_count, results_batch,
                                        appended, pc>>
    /\ UNCHANGED <<tree, root_is_dir, truncate, cpu_count, exit_status, store,
                   all_files, worker_count, next_task, inflight, overtakes,
                   writes, at_signal, fault>>

\* error_count += len(results_batch)
DemotedError(e, n) == e + n

\* Mutant: the optimistic success count is not taken back.
DemotedSuccess_kept(s, n) == s

\* success_count -= len(results_batch)
DemotedSuccess(s, n) == s - n

\* Mutant: the batch is not emptied after a threshold insert.
ClearedBatch_kept(batch) == batch

\* `results_batch = []` after a threshold insert, in both branches
ClearedBatch(batch) == <<>>

WriteRecord(batch, ok, final, reported) ==
    [docs |-> batch, ok |-> ok, final |-> final, reported |-> reported,
     succ_before |-> success_count, err_before |-> error_count,
     succ_after |-> IF reported THEN success_count
                    ELSE DemotedSuccess(success_count, Len(batch)),
     err_after |-> IF reported THEN error_count
                   ELSE DemotedError(error_count, Len(batch))]

\* Mutant: the batch is written last document first.
InsertBatch_reversed(final) ==
    \E inserted \in BOOLEAN, out \in PrintOutcomes(stdout_ok) :
        LET attempted == inserted /\ BatchSizeOk(results_batch)
            reported == attempted /\ out
            w == WriteRecord(results_batch, inserted, final, reported)
            n == Len(results_batch)
            reversed == [i \in 1..n |-> results_batch[n + 1 - i]]
        IN  /\ ~attempted => out = stdout_ok
            /\ stdout_ok' = out
            /\ store' = IF inserted THEN store \o reversed ELSE store
            /\ writes' = Append(writes, w)
            /\ success_count' = w.succ_after
            /\ error_count' = w.err_after

\* The try block around insert_many, the same at the threshold and at the
\* end: insert_many raises (inserted = FALSE), or it returns and then the
\* batch size is summed and the commit line printed (out), any exception
\* of which lands in the same `except Exception`.
InsertBatch(final) ==
    \E inserted \in BOOLEAN, out \in PrintOutcomes(stdout_ok) :
        LET attempted == inserted /\ BatchSizeOk(results_batch)
            reported == attempted /\ out
            w == WriteRecord(results_batch, inserted, final, reported)
        IN  /\ ~attempted => out = stdout_ok
            /\ stdout_ok' = out
            /\ store' = IF inserted THEN store \o results_batch ELSE store
            /\ writes' = Append(writes, w)
            /\ success_count' = w.succ_after
            /\ error_count' = w.err_after

\* Mutant: a failed batch ends the run.
AfterBatchError_fatal == "FatalError"

\* Where the coordinator is after the `except Exception` of the threshold
\* insert: the handler ends and the result loop goes on.
AfterBatchError == "Processing"

\* Mutant: a batch whose write failed is kept for the next attempt.
ThresholdFlush_retries ==
    /\ pc = "Flushing"
    /\ InsertBatch(FALSE)
    /\ results_batch' = IF writes'[Len(writes')].reported
                        THEN ClearedBatch(results_batch) ELSE results_batch
    /\ pc' = IF writes'[Len(writes')].reported
             THEN "Processing" ELSE AfterBatchError
    /\ UNCHANGED <<tree, root_is_dir, truncate, cpu_count, exit_status,
                   all_files, worker_count, next_task, inflight, outqueue,
                   overtakes, processed_count, appended, consumed, at_signal,
                   fault>>

\* main: `db.content.insert_many(results_batch)` when the batch is full
ThresholdFlush ==
    /\ pc = "Flushing"
    /\ InsertBatch(FALSE)
    /\ results_batch' = ClearedBatch(results_batch)
    /\ pc' = IF writes'[Len(writes')].reported
             THEN "Processing" ELSE AfterBatchError
    /\ UNCHANGED <<tree, root_is_dir, truncate, cpu_count, exit_status,
                   all_files, worker_count, next_task, inflight, outqueue,
                   overtakes, processed_count, appended, consumed, at_signal,
                   fault>>

\* Mutant: the pool block is left once every task has been handed out.
StreamEnd_early ==
    /\ pc = "Processing"
    /\ next_task > Len(all_files)
    /\ pc' = "Draining"
    /\ UNCHANGED <<tree, root_is_dir, truncate, cpu_count, exit_status,
                   stdout_ok, store, all_files, worker_count, next_task,
                   inflight, outqueue, overtakes, processed_count,
                   success_count, error_count, results_batch, writes,
                   appended, consumed, at_signal, fault>>

\* main: the result stream is exhausted, the pool block is left
StreamEnd ==
    /\ pc = "Processing"
    /\ next_task > Len(all_files)
    /\ inflight = {}
    /\ outqueue = <<>>
    /\ pc' = "Draining"
    /\ UNCHANGED <<tree, root_is_dir, truncate, cpu_count, exit_status,
                   stdout_ok, store, all_files, worker_count, next_task,
                   inflight, outqueue, overtakes, processed_count,
                   success_count, error_count, results_batch, writes,
                   appended, consumed, at_signal, fault>>

\* main: `if results_batch:` the final insert, then the final statistics;
\* main returns.
FinalFlush ==
    /\ pc = "Draining"
    /\ IF results_batch # <<>>
       THEN InsertBatch(TRUE)
       ELSE UNCHANGED <<stdout_ok, store, writes, success_count, error_count>>
    /\ pc' = "Completed"
    /\ exit_status' = ProcessExit(0, stdout_ok')
    /\ UNCHANGED <<tree, root_is_dir, truncate, cpu_count, all_files,
                   worker_count, next_task, inflight, outqueue, overtakes,
                   processed_count, results_batch, appended, consumed,
                   at_signal, fault>>

\* Mutant: the error is logged and the run goes on to the final flush.
StreamError_logged ==
    /\ pc = "Processing"
    /\ pc' = "Draining"
    /\ fault' = "stream"
    /\ inflight' = {}
    /\ outqueue' = <<>>
    /\ UNCHANGED <<tree, root_is_dir, truncate, cpu_count, exit_status,
                   stdout_ok, store, all_files, worker_count, next_task,
                   overtakes, processed_count, success_count, error_count,
                   results_batch, writes, appended, consumed, at_signal>>

\* The iteration of the result stream raises: main's outer
\* `except Exception`: pool.terminate(); pool.join(); sys.exit(1)
StreamError ==
    /\ pc = "Processing"
    /\ pc' = "FatalError"
    /\ exit_status' = ProcessExit(1, stdout_ok)
    /\ fault' = "stream"
    /\ inflight' = {}
    /\ outqueue' = <<>>
    /\ UNCHANGED <<tree, root_is_dir, truncate, cpu_count, stdout_ok, store,
                   all_files, worker_count, next_task, overtakes,
                   processed_count, success_count, error_count, results_batch,
                   writes, appended, consumed, at_signal>>

\* SIGINT or SIGTERM: signal_handler calls sys.exit(0). The SystemExit is
\* no Exception and no KeyboardInterrupt: it leaves the pool block (which
\* terminates the pool) and main.
Signal ==
    /\ pc \notin Terminal
    /\ pc' = SignalTarget
    /\ exit_status' = ProcessExit(SignalExitCode, stdout_ok)
    /\ fault' = "signal"
    /\ at_signal' = [hit |-> TRUE, pc |-> pc, batch |-> results_batch,
                     nwrites |-> Len(writes)]
    /\ inflight' = {}
    /\ outqueue' = <<>>
    /\ UNCHANGED <<tree, root_is_dir, truncate, cpu_count, stdout_ok, store,
                   all_files, worker_count, next_task, overtakes,
                   processed_count, success_count, error_count, results_batch,
                   writes, appended, consumed>>

Next ==
    \/ CheckRoot
    \/ Setup
    \/ GatherFiles
    \/ StartPool
    \/ \E k \in inflight : WorkerReturn(k)
    \/ Consume
    \/ ThresholdFlush
    \/ StreamEnd
    \/ FinalFlush
    \/ StreamError
    \/ Signal

Spec == Init /\ [][Next]_vars


\* The coordinator, the pool's workers and the result stream are scheduled:
\* a worker's task returns, the coordinator's next step is taken. A signal
\* and a stream error may or may not come.
LiveSpec ==
    /\ Spec
    /\ WF_vars(\E k \in inflight : WorkerReturn(k))
    /\ WF_vars(Consume)
    /\ WF_vars(ThresholdFlush)
    /\ WF_vars(StreamEnd)
    /\ WF_vars(FinalFlush)

\* -------------------------------------------------------------- claims
ThresholdWriteIds == {i \in 1..Len(writes) : ~writes[i].final}

FinalWriteIds == {i \in 1..Len(writes) : writes[i].final}

\* The documents this run added to the store.
StoreAdded == Len(store) - (IF truncate THEN 0 ELSE 1)

\* C1: a run that reaches Completed has issued one insert_many of exactly
\* BATCH_SIZE documents per BATCH_SIZE results appended to the batch, one
\* final insert_many of the remainder iff the remainder is 1..BATCH_SIZE-1,
\* and no other write.
C1_FlushPerBatch ==
    /\ \A i \in ThresholdWriteIds : Len(writes[i].docs) = BATCH_SIZE
    /\ \A i \in FinalWriteIds :
        /\ i = Len(writes)
        /\ pc = "Completed"
        /\ Len(writes[i].docs) \in 1..(BATCH_SIZE - 1)
        /\ Len(writes[i].docs) = appended % BATCH_SIZE
    /\ pc \in {"Processing", "Draining", "Completed"} =>
        Cardinality(ThresholdWriteIds) = appended \div BATCH_SIZE
    /\ pc = "Completed" =>
        Cardinality(FinalWriteIds) = (IF appended % BATCH_SIZE > 0 THEN 1 ELSE 0)

C1_Witness ==
    /\ pc = "Completed"
    /\ appended = 2 * BATCH_SIZE + 1
    /\ Cardinality(ThresholdWriteIds) = 2
    /\ Cardinality(FinalWriteIds) = 1

\* C2: a failed insert_many of n documents takes n from success_count, adds
\* n to error_count, and its documents are in no later write, not in the
\* store, and (threshold insert) no longer in the batch.
C2_FailedBatchDemoted ==
    \A i \in 1..Len(writes) :
        LET w == writes[i]
            n == Len(w.docs)
        IN  ~w.ok =>
              /\ w.succ_after = w.succ_before - n
              /\ w.err_after = w.err_before + n
              /\ i = Len(writes) =>
                    /\ success_count = w.succ_after + Len(results_batch)
                                       - (IF w.final THEN n ELSE 0)
                    /\ error_count >= w.err_after
              /\ \A d \in Range(w.docs) :
                    /\ d \notin Range(store)
                    /\ \A j \in (i + 1)..Len(writes) :
                          d \notin Range(writes[j].docs)
                    /\ ~w.final => d \notin Range(results_batch)
              /\ w.final => pc = "Completed" /\ i = Len(writes)

C2_Witness ==
    \E i \in 1..Len(writes) :
        /\ ~writes[i].ok
        /\ ~writes[i].final
        /\ i < Len(writes)
        /\ writes[Len(writes)].ok

\* The coordinator receives the result of the file at path p.
Receives(p) ==
    /\ pc = "Processing"
    /\ outqueue # <<>>
    /\ processed_count' = processed_count + 1
    /\ all_files[Head(outqueue).task] = p

\* C3: receiving the result of a file of unknown content type changes
\* neither counter, adds nothing to the batch and writes nothing.
C3_UnknownTypeNotCounted ==
    [][\A p \in 1..Len(tree) :
          (Receives(p) /\ tree[p].ctype = "none") =>
              /\ error_count' = error_count
              /\ success_count' = success_count
              /\ results_batch' = results_batch
              /\ store' = store]_vars

\* C4: a file whose name begins with '.' is in no backlog, is extracted by
\* no worker, yields no result and no document, and the counters count
\* only the other files.
C4_HiddenNeverProcessed ==
    /\ \A p \in 1..Len(tree) :
        tree[p].hidden =>
            /\ p \notin Range(all_files)
            /\ \A k \in inflight : all_files[k] # p
            /\ \A i \in 1..Len(outqueue) : all_files[outqueue[i].task] # p
            /\ \A i \in 1..Len(consumed) : all_files[consumed[i]] # p
            /\ \A d \in Range(results_batch) \cup Range(store) : d.src # p
    /\ success_count + error_count
          <= Cardinality({p \in 1..Len(tree) : ~tree[p].hidden})

C4_Witness ==
    /\ pc = "Completed"
    /\ Len(tree) = 2
    /\ tree[1].hidden
    /\ processed_count = 1
    /\ success_count = 1

\* C5: after a signal no insert_many is issued, and the documents that were
\* in the batch when the signal came are not in the store.
C5_SignalLosesBatch ==
    at_signal.hit =>
        /\ Len(writes) = at_signal.nwrites
        /\ \A d \in Range(at_signal.batch) : d \notin Range(store)

C5_Witness ==
    /\ pc = "Interrupted"
    /\ at_signal.hit
    /\ at_signal.pc = "Processing"
    /\ Len(at_signal.batch) = 15
    /\ StoreAdded = 0

\* C6: with stdout open, the exit status is 0 exactly when the run reached
\* Completed, and 1 after an invalid root, a fatal error or a signal that
\* came during Processing.
C6_ExitStatusByOutcome ==
    (pc \in Terminal /\ stdout_ok
        /\ (at_signal.hit => at_signal.pc = "Processing")) =>
        /\ (exit_status = 0) <=> (pc = "Completed")
        /\ pc # "Completed" => exit_status = 1

\* The successes of the backlog when its results arrive in backlog order.
ExpectedSuccess ==
    Cardinality({k \in 1..Len(all_files) :
                    /\ tree[all_files[k]].exists
                    /\ Truthy(process_file(all_files[k]))})

\* C7: a run that reaches Completed with stdout open and no failed write
\* has processed the whole backlog, counts the same successes whatever the
\* order of the results, and added as many documents to the store.
C7_OrderIndependentCounts ==
    (pc = "Completed" /\ stdout_ok /\ \A i \in 1..Len(writes) : writes[i].ok) =>
        /\ processed_count = Len(all_files)
        /\ success_count = ExpectedSuccess
        /\ StoreAdded = success_count

\* C8: the pool has min(cpu_count, 8) workers, and at most 8 files are being
\* extracted at any time.
C8_WorkerCap ==
    /\ Cardinality(inflight) <= MAX_WORKERS
    /\ pc \in {"Processing", "Flushing", "Draining", "Completed"} =>
          worker_count = (IF cpu_count <= MAX_WORKERS THEN cpu_count
                          ELSE MAX_WORKERS)

C8_Witness ==
    /\ cpu_count = BigCpu
    /\ Cardinality(inflight) = MAX_WORKERS
    /\ next_task <= Len(all_files)

\* C9: once the result loop runs, when every worker task returns, and
\* unless a signal comes or the result stream raises, every result is
\* received and the run reaches Completed, whichever extractions and batch
\* writes fail.
C9_RunCompletes ==
    (pc = "Processing" /\ \A k \in 1..Len(all_files) : ~Hung(k)) ~>
        \/ fault # "none"
        \/ /\ pc = "Completed"
           /\ processed_count = Len(all_files)
           /\ Range(consumed) = 1..Len(all_files)

C9_Witness ==
    /\ pc = "Completed"
    /\ fault = "none"
    /\ \E p \in Range(all_files) : tree[p].crash
    /\ \E i \in 1..Len(writes) : ~writes[i].ok /\ ~writes[i].final
    /\ error_count > BATCH_SIZE

\* A file whose base attributes are read and whose every probe fails.
AllProbesFail(f) ==
    /\ ~f.hidden /\ f.ctype # "none" /\ ~f.crash /\ f.exists
    /\ ~f.mdls_ok /\ ~f.xattr_ok /\ ~f.media_ok

\* The document of such a file: base attributes, empty maps.
BareDocument(p) ==
    [src |-> p, file_path |-> p, content_type |-> tree[p].ctype,
     base_attributes |-> "data", mdls |-> "empty", xattr |-> "empty",
     video_metadata |-> IF tree[p].ctype = "video" THEN "empty" ELSE Absent,
     image_metadata |-> IF tree[p].ctype = "image" THEN "empty" ELSE Absent]

\* C10: the result of a file whose probes all fail is its bare document,
\* and the coordinator, with stdout open, appends it to the batch and
\* counts a success.
C10_BareFileSucceeds ==
    [][\A p \in 1..Len(tree) :
          (Receives(p) /\ AllProbesFail(tree[p]) /\ stdout_ok') =>
              /\ Head(outqueue).result = [some |-> TRUE, doc |-> BareDocument(p)]
              /\ results_batch' = Append(results_batch, BareDocument(p))
              /\ success_count' = success_count + 1]_vars

\* A file that is processed (not hidden, known type, no escaping exception)
\* and whose base attributes cannot be read.
BaseReadFails(f) ==
    /\ ~f.hidden /\ f.ctype # "none" /\ ~f.crash /\ ~f.exists

\* C11: the result of a file whose base attributes cannot be read is still
\* a Success, and the coordinator, with stdout open, appends its document
\* to the batch and counts a success.
C11_BaseFailureKeepsDocument ==
    [][\A p \in 1..Len(tree) :
          (Receives(p) /\ BaseReadFails(tree[p]) /\ stdout_ok') =>
              /\ Truthy(Head(outqueue).result)
              /\ results_batch' = Append(results_batch, Head(outqueue).result.doc)
              /\ success_count' = success_count + 1
              /\ error_count' = error_count]_vars

\* A processed video or image file whose media probe fails.
MediaProbeFails(f) ==
    /\ ~f.hidden /\ f.ctype \in {"video", "image"} /\ ~f.crash /\ ~f.media_ok

\* The media field of a document, by the content type of its file.
MediaField(f, d) ==
    IF f.ctype = "video" THEN d.video_metadata ELSE d.image_metadata

C13_InvalidRootStopsFirst ==
    ~root_is_dir =>
        /\ pc \in {"Start", "InvalidRoot", "Interrupted"}
        /\ pc = "InvalidRoot" => exit_status = 1
        /\ store = <<OldDoc>>
        /\ writes = <<>>
        /\ all_files = <<>>
        /\ worker_count = 0
        /\ inflight = {}
        /\ processed_count = 0

C13_Witness ==
    /\ ~root_is_dir
    /\ truncate
    /\ pc = "InvalidRoot"
    /\ exit_status = 1

\* The documents of the first n insert_many calls that went through, in
\* the order written.
RECURSIVE WrittenUpTo(_)
WrittenUpTo(n) ==
    IF n = 0 THEN <<>>
    ELSE WrittenUpTo(n - 1) \o (IF writes[n].ok THEN writes[n].docs ELSE <<>>)

WrittenDocs == WrittenUpTo(Len(writes))

\* C14: without --truncate the collection is always the documents it held
\* before the run followed by the documents this run wrote; with --truncate
\* it is, from the clearing step on and at any time a document of this run
\* has been written, exactly the documents this run wrote; before the
\* clearing step it is untouched.
C14_TruncateOnceBeforeWrites ==
    /\ ~truncate => store = <<OldDoc>> \o WrittenDocs
    /\ truncate =>
         /\ store \in {<<OldDoc>>, WrittenDocs}
         /\ pc \in {"Start", "Setup", "InvalidRoot"} => store = <<OldDoc>>
         /\ (writes # <<>> \/ pc \notin {"Start", "Setup", "InvalidRoot",
                                          "Interrupted"})
               => store = WrittenDocs
    /\ pc = "Completed" =>
         Len(store) = (IF truncate THEN 0 ELSE 1) + Len(WrittenDocs)

C14_Witness ==
    /\ truncate
    /\ pc = "Completed"
    /\ Len(writes) >= 2
    /\ \A i \in 1..Len(writes) : writes[i].ok
    /\ Len(store) > BATCH_SIZE
    /\ store = WrittenDocs

\* The coordinator takes the next result from the stream.
ReceivesNext ==
    /\ pc = "Processing"
    /\ outqueue # <<>>
    /\ processed_count' = processed_count + 1

\* C15: with stdout open, what happens to a received result depends on the
\* result alone: a Success is appended to the batch and counted in
\* success_count, anything else is counted in error_count; the size lookup
\* made for the progress line changes neither.
C15_ReportingObservational ==
    [][(ReceivesNext /\ stdout_ok') =>
          IF Truthy(Head(outqueue).result)
          THEN /\ results_batch' = Append(results_batch, Head(outqueue).result.doc)
               /\ success_count' = success_count + 1
               /\ error_count' = error_count
          ELSE /\ results_batch' = results_batch
               /\ success_count' = success_count
               /\ error_count' = error_count + 1]_vars

\* C16: an insert_many that returned leaves both counters as they were.
C16_DemotedOnlyOnWriteFailure ==
    \A i \in 1..Len(writes) :
        writes[i].ok =>
            /\ writes[i].succ_after = writes[i].succ_before
            /\ writes[i].err_after = writes[i].err_before

\* C17: the step in which the result stream raises ends the run in
\* FatalError with a non-zero exit status and an empty pool, consumes
\* nothing and writes nothing; no step follows it.
C17_StreamErrorIsFatal ==
    [][fault' = "stream" =>
          /\ fault = "none"
          /\ pc = "Processing"
          /\ pc' = "FatalError"
          /\ exit_status' \notin {-1, 0}
          /\ inflight' = {}
          /\ processed_count' = processed_count
          /\ consumed' = consumed
          /\ results_batch' = results_batch
          /\ store' = store
          /\ writes' = writes]_vars

C17_Witness ==
    /\ fault = "stream"
    /\ pc = "FatalError"
    /\ exit_status = 1
    /\ results_batch # <<>>
    /\ processed_count < Len(all_files)
    /\ store = IF truncate THEN <<>> ELSE <<OldDoc>>

\* C20: whenever the coordinator is back at the blocking receive, or past
\* the end of the stream, every received result has been counted once.
C20_CountersAddUp ==
    pc \in {"Processing", "Draining", "Completed"} =>
        processed_count = success_count + error_count

\* The backlog positions whose probe hangs.
HungTasks == {k \in 1..Len(all_files) : Hung(k)}

\* C18: with two or more workers and one backlog item whose probe never
\* returns, and unless a signal comes or the result stream raises, the
\* result of every other backlog item is eventually consumed.
C18_HungWorkerStallsAlone ==
    (pc = "Processing" /\ worker_count >= 2 /\ Cardinality(HungTasks) = 1) ~>
        \/ fault # "none"
        \/ Range(consumed) = (1..Len(all_files)) \ HungTasks

C18_Witness ==
    /\ pc = "Processing"
    /\ fault = "none"
    /\ worker_count >= 2
    /\ Len(all_files) >= 3
    /\ Cardinality(HungTasks) = 1
    /\ inflight = HungTasks
    /\ Hung(1)
    /\ Range(consumed) = (1..Len(all_files)) \ HungTasks

\* The tasks whose result waits in the pool's result queue.
QueuedTasks == {outqueue[i].task : i \in 1..Len(outqueue)}

\* C19: in a run without signal or stream error, every backlog position
\* handed out so far is in exactly one place (with a worker, in the result
\* queue, or consumed) and there exactly once, positions are handed out in
\* backlog order, and when the stream has ended every position has been
\* consumed: processed_count is the backlog size.
C19_EachItemOnce ==
    fault = "none" =>
        /\ next_task - 1 <= Len(all_files)
        /\ Cardinality(QueuedTasks) = Len(outqueue)
        /\ Cardinality(Range(consumed)) = Len(consumed)
        /\ inflight \cap QueuedTasks = {}
        /\ inflight \cap Range(consumed) = {}
        /\ QueuedTasks \cap Range(consumed) = {}
        /\ pc \in {"Processing", "Flushing", "Draining", "Completed"} =>
              inflight \cup QueuedTasks \cup Range(consumed) = 1..(next_task - 1)
        /\ processed_count = Len(consumed)
        /\ pc \in {"Draining", "Completed"} =>
              /\ processed_count = Len(all_files)
              /\ Range(consumed) = 1..Len(all_files)

C19_Witness ==
    /\ fault = "none"
    /\ pc = "Completed"
    /\ Len(all_files) >= 2
    /\ consumed[1] # 1
    /\ processed_count = Len(all_files)

\* The document d names the work item it was built from.
CarriesIdentity(d) ==
    /\ d.file_path = d.src
    /\ d.content_type = tree[d.src].ctype

\* C21: every document in the batch, and every document handed to
\* insert_many, holds the file_path and the content_type of the work item
\* it was built from.
C21_DocumentCarriesIdentity ==
    /\ \A i \in 1..Len(results_batch) : CarriesIdentity(results_batch[i])
    /\ \A w \in 1..Len(writes) :
          \A i \in 1..Len(writes[w].docs) : CarriesIdentity(writes[w].docs[i])

\* The backlog position of the path p.
TaskOf(p) == CHOOSE k \in 1..Len(all_files) : all_files[k] = p

\* The place of the backlog position k in the order of arrival at the
\* coordinator.
ArrivalPos(k) == CHOOSE i \in 1..Len(consumed) : consumed[i] = k

\* The documents of the sequence s that follow each other are built from
\* results that arrived in that order.
InArrivalOrder(s) ==
    /\ \A i \in 1..Len(s) :
          s[i].src # 0 => TaskOf(s[i].src) \in Range(consumed)
    /\ \A i \in 1..(Len(s) - 1) :
          s[i].src # 0 =>
              ArrivalPos(TaskOf(s[i].src)) < ArrivalPos(TaskOf(s[i + 1].src))

\* C22: the documents this run put in the store lie there in the order in
\* which their results arrived at the coordinator, and so do the documents
\* of each insert_many call and of the batch being filled.
C22_StoreInArrivalOrder ==
    /\ InArrivalOrder(store)
    /\ InArrivalOrder(results_batch)
    /\ \A w \in 1..Len(writes) : InArrivalOrder(writes[w].docs)

\* A completed run has stored two documents in the reverse of their
\* backlog order.
C22_Witness ==
    /\ pc = "Completed"
    /\ ~truncate
    /\ Len(store) = 3
    /\ TaskOf(store[2].src) > TaskOf(store[3].src)

\* The places (write, index) of the documents handed to insert_many.
WrittenPlaces ==
    {pl \in (1..Len(writes)) \X (1..BATCH_SIZE) :
        pl[2] <= Len(writes[pl[1]].docs)}

\* C23: no document is handed to insert_many twice: the documents of all
\* the insert_many calls of a run are of different work items, a document
\* still in the batch at the blocking receive is in no earlier call, and
\* the final insert is the last call of the run.
C23_WrittenAtMostOnce ==
    /\ \A a, b \in WrittenPlaces :
          a # b => writes[a[1]].docs[a[2]].src # writes[b[1]].docs[b[2]].src
    /\ pc \in {"Processing", "Flushing"} =>
          \A a \in WrittenPlaces, i \in 1..Len(results_batch) :
              writes[a[1]].docs[a[2]].src # results_batch[i].src
    /\ \A w \in 1..Len(writes) :
          writes[w].final =>
              /\ w = Len(writes)
              /\ pc = "Completed"

C23_Witness ==
    /\ pc = "Completed"
    /\ Len(writes) >= 3
    /\ ~writes[1].ok
    /\ writes[2].ok
    /\ writes[Len(writes)].final
    /\ writes[Len(writes)].ok

\* C24: the batch never holds more than BATCH_SIZE documents, and at the
\* blocking receive it holds fewer than BATCH_SIZE: a full batch is
\* written and emptied before the next result is taken, whether the write
\* went through or not.
C24_BatchBounded ==
    /\ Len(results_batch) <= BATCH_SIZE
    /\ pc = "Processing" => Len(results_batch) < BATCH_SIZE
    /\ pc = "Flushing" => Len(results_batch) = BATCH_SIZE

\* Back at the blocking receive with an empty batch after a threshold write
\* that failed.
C24_Witness ==
    /\ pc = "Processing"
    /\ results_batch = <<>>
    /\ writes # <<>>
    /\ ~writes[Len(writes)].ok
    /\ Len(writes[Len(writes)].docs) = BATCH_SIZE
    /\ processed_count < Len(all_files)

\* A step that changes the collection or issues an insert_many.
StoreStep == store' # store \/ writes' # writes

\* C25: the collection is touched only by a step of the coordinator (the
\* setup, a threshold insert, the final insert), which issues at most one
\* insert_many, and in which no result is taken from the stream and no
\* worker hands in a result; a worker's step leaves the collection alone.
C25_SingleWriter ==
    [][/\ StoreStep =>
             /\ pc \in {"Setup", "Flushing", "Draining"}
             /\ Len(writes') <= Len(writes) + 1
             /\ processed_count' = processed_count
             /\ consumed' = consumed
             /\ outqueue' = outqueue
             /\ inflight' = inflight
       /\ Len(outqueue') > Len(outqueue) => ~StoreStep]_vars

\* Workers are busy and results wait while an insert_many has gone through.
C25_Witness ==
    /\ pc = "Processing"
    /\ inflight # {}
    /\ outqueue # <<>>
    /\ writes # <<>>
    /\ writes[Len(writes)].ok
    /\ Len(store) >= BATCH_SIZE

\* The pool has been started or a work item handed out.
PoolStarted ==
    \/ worker_count > 0
    \/ inflight # {}
    \/ outqueue # <<>>
    \/ next_task > 1
    \/ processed_count > 0

\* The result stream has ended normally: every backlog item was handed
\* out, returned and consumed, with no signal and no stream error.
StreamEndedNormally ==
    /\ fault = "none"
    /\ next_task > Len(all_files)
    /\ inflight = {}
    /\ outqueue = <<>>
    /\ processed_count = Len(all_files)

\* C26: the backlog is empty until the enumeration and the full
\* enumeration of the tree from then on; the pool is started and work
\* handed out only with the full backlog; the final flush and Completed
\* come only after the stream ended normally.
C26_TwoPhaseLifecycle ==
    /\ all_files \in {<<>>, gather_files(tree)}
    /\ pc \in {"Start", "Setup", "Enumerating", "InvalidRoot"} =>
          all_files = <<>>
    /\ pc \in {"Starting", "Processing", "Flushing", "Draining", "Completed"} =>
          all_files = gather_files(tree)
    /\ PoolStarted =>
          /\ all_files = gather_files(tree)
          /\ pc \notin {"Start", "Setup", "Enumerating", "Starting", "InvalidRoot"}
    /\ (pc \in {"Draining", "Completed"} \/ \E w \in 1..Len(writes) : writes[w].final)
          => StreamEndedNormally

\* The final flush is due for a backlog that left a hidden file out.
C26_Witness ==
    /\ pc = "Draining"
    /\ results_batch # <<>>
    /\ Len(all_files) >= 1
    /\ Len(all_files) < Len(tree)
    /\ StreamEndedNormally

=============================================================================
